---- MODULE Spec2Model ----
(***************************************************************************)
(* Model of scripts/build_blog.py: the command line tool that compiles a   *)
(* Typst blog post to HTML or SVG with the external typst compiler and     *)
(* merges the result into the blog-post template.                          *)
(*                                                                         *)
(* Text is modelled as a sequence of tokens.  Every token is the string it *)
(* is written as ("#let", "<body>", "$", ...): a token is never split by   *)
(* any of the regular expressions of the program, because each regular     *)
(* expression's literals are whole tokens and its character classes group  *)
(* all the characters of a token alike.                                    *)
(***************************************************************************)
EXTENDS Integers, Sequences, FiniteSets, TLC

\* ------------------------------------------------------------------ bounds
\* Longest source text, in fragments (declarations, delimiters, words).
MaxFrags == 3
\* Longest compiler HTML document, in tokens.
MaxDocLen == 4
\* Largest number of SVG pages the compiler emits.
MaxPages == 11

\* ------------------------------------------------------------------ tokens
LetTok == "#let"
EqTok == "="
QuoteTok == "\""
DollarTok == "$"
BackslashTok == "\\"
SpaceTok == " "
NewlineTok == "\n"
BodyStart == "<body>"
BodyEnd == "</body>"

\* The tokens that hold a character \w does not match.  Every other token
\* (title, date_display, keywords, A, x, 10, ...) is made of letters, digits
\* and underscores only.
NonWordToks ==
    {LetTok, EqTok, QuoteTok, DollarTok, BackslashTok, SpaceTok, NewlineTok,
     BodyStart, BodyEnd, "<svg>", "</svg>"}
\* \s : whitespace tokens.
SpaceToks == {SpaceTok, NewlineTok}

\* \w+ matches the whole token.
IsWord(t) == t \notin NonWordToks
IsSpace(t) == t \in SpaceToks

\* text[a..b] as a sequence (empty when b < a).
Slice(s, a, b) == IF b < a THEN << >> ELSE SubSeq(s, a, b)

\* ------------------------------------------------------- extract_metadata
\* End of the maximal run of tokens satisfying the class, starting at i
\* (returns i - 1 when the run is empty): a greedy X+ / X* of the regex.
RECURSIVE SpaceRunEnd(_, _)
SpaceRunEnd(text, i) ==
    IF i <= Len(text) /\ IsSpace(text[i]) THEN SpaceRunEnd(text, i + 1) ELSE i - 1

RECURSIVE WordRunEnd(_, _)
WordRunEnd(text, i) ==
    IF i <= Len(text) /\ IsWord(text[i]) THEN WordRunEnd(text, i + 1) ELSE i - 1

RECURSIVE NonQuoteRunEnd(_, _)
NonQuoteRunEnd(text, i) ==
    IF i <= Len(text) /\ text[i] # QuoteTok THEN NonQuoteRunEnd(text, i + 1) ELSE i - 1

NoMatch == [found |-> FALSE, start |-> 0, end |-> 0, key |-> << >>, value |-> << >>]

\* re.match of  #let\s+(\w+)\s+=\s+"([^"]*)"  at position i.
MetaMatchAt(text, i) ==
    IF ~(i <= Len(text) /\ text[i] = LetTok) THEN NoMatch
    ELSE LET s1 == SpaceRunEnd(text, i + 1) IN
     IF s1 < i + 1 THEN NoMatch
     ELSE LET w == WordRunEnd(text, s1 + 1) IN
      IF w < s1 + 1 THEN NoMatch
      ELSE LET s2 == SpaceRunEnd(text, w + 1) IN
       IF s2 < w + 1 THEN NoMatch
       ELSE IF ~(s2 + 1 <= Len(text) /\ text[s2 + 1] = EqTok) THEN NoMatch
        ELSE LET s3 == SpaceRunEnd(text, s2 + 2) IN
         IF s3 < s2 + 2 THEN NoMatch
         ELSE IF ~(s3 + 1 <= Len(text) /\ text[s3 + 1] = QuoteTok) THEN NoMatch
          ELSE LET v == NonQuoteRunEnd(text, s3 + 2) IN
           IF ~(v + 1 <= Len(text) /\ text[v + 1] = QuoteTok) THEN NoMatch
           ELSE [found |-> TRUE, start |-> i, end |-> v + 1,
                 key |-> Slice(text, s1 + 1, w),
                 value |-> Slice(text, s3 + 2, v)]

\* re.finditer: the non-overlapping matches, scanning left to right from pos.
RECURSIVE FindIter(_, _)
FindIter(text, pos) ==
    IF pos > Len(text) THEN << >>
    ELSE LET m == MetaMatchAt(text, pos) IN
         IF m.found THEN << m >> \o FindIter(text, m.end + 1)
         ELSE FindIter(text, pos + 1)

\* Mutation of StoreAll: a key already stored keeps its first value.
RECURSIVE StoreFirst(_, _)
StoreFirst(metadata, matches) ==
    IF matches = << >> THEN metadata
    ELSE LET m == Head(matches) IN
         StoreFirst([k \in (DOMAIN metadata) \cup {m.key} |->
                       IF k \in DOMAIN metadata THEN metadata[k] ELSE m.value],
                    Tail(matches))

\* metadata[key] = value for each match in turn: a later match overwrites.
RECURSIVE StoreAll(_, _)
StoreAll(metadata, matches) ==
    IF matches = << >> THEN metadata
    ELSE LET m == Head(matches) IN
         StoreAll([k \in (DOMAIN metadata) \cup {m.key} |->
                      IF k = m.key THEN m.value ELSE metadata[k]],
                  Tail(matches))

\* The empty dict.
EmptyDict == [k \in {} |-> << >>]

extract_metadata(text) == StoreAll(EmptyDict, FindIter(text, 1))

\* dict.get(key, default)
Get(metadata, key, default) ==
    IF key \in DOMAIN metadata THEN metadata[key] ELSE default

\* ---------------------------------------------------------------- has_math
\* re.match of  \$[^$]+\$  at position i: the delimiter, one or more tokens
\* other than the delimiter, the delimiter.
RECURSIVE NonDollarRunEnd(_, _)
NonDollarRunEnd(text, i) ==
    IF i <= Len(text) /\ text[i] # DollarTok THEN NonDollarRunEnd(text, i + 1) ELSE i - 1

MathMatchAt(text, i) ==
    /\ i <= Len(text)
    /\ text[i] = DollarTok
    /\ LET e == NonDollarRunEnd(text, i + 1) IN
         /\ e >= i + 1
         /\ e + 1 <= Len(text)
         /\ text[e + 1] = DollarTok

\* Mutation of has_math: the pattern \$[^$]*\$, which an empty pair matches.
has_math_star(text) ==
    \E i \in 1..Len(text) :
        /\ text[i] = DollarTok
        /\ NonDollarRunEnd(text, i + 1) + 1 <= Len(text)

has_math(text) == \E i \in 1..Len(text) : MathMatchAt(text, i)

\* --------------------------------------------------- compile_typst_to_html
NoBody == [found |-> FALSE, group |-> << >>]

\* Position of the first BodyEnd at or after j, or 0: the lazy .*? grows one
\* token at a time until </body> follows.
RECURSIVE LazyBodyEnd(_, _)
LazyBodyEnd(doc, j) ==
    IF j > Len(doc) THEN 0
    ELSE IF doc[j] = BodyEnd THEN j
    ELSE LazyBodyEnd(doc, j + 1)

\* re.search(r"<body>(.*?)</body>", doc, re.DOTALL) from position i on: the
\* leftmost position at which the pattern matches.
RECURSIVE BodySearchFrom(_, _)
BodySearchFrom(doc, i) ==
    IF i > Len(doc) THEN NoBody
    ELSE IF doc[i] = BodyStart /\ LazyBodyEnd(doc, i + 1) # 0
         THEN [found |-> TRUE, group |-> Slice(doc, i + 1, LazyBodyEnd(doc, i + 1) - 1)]
         ELSE BodySearchFrom(doc, i + 1)

\* Mutation of BodySearch: the greedy <body>(.*)</body>, up to the last </body>.
BodySearchGreedy(doc) ==
    LET starts == {i \in 1..Len(doc) : doc[i] = BodyStart}
        ends == {j \in 1..Len(doc) : doc[j] = BodyEnd}
        ok == {i \in starts : \E j \in ends : j > i}
    IN IF ok = {} THEN NoBody
       ELSE LET i == CHOOSE a \in ok : \A b \in ok : a <= b
                j == CHOOSE a \in ends : \A b \in ends : b <= a
            IN [found |-> TRUE, group |-> Slice(doc, i + 1, j - 1)]

BodySearch(doc) == BodySearchFrom(doc, 1)

\* str.strip(): leading and trailing whitespace removed.
RECURSIVE LStrip(_)
LStrip(s) == IF s # << >> /\ IsSpace(Head(s)) THEN LStrip(Tail(s)) ELSE s

RECURSIVE RStrip(_)
RStrip(s) ==
    IF s # << >> /\ IsSpace(s[Len(s)]) THEN RStrip(SubSeq(s, 1, Len(s) - 1)) ELSE s

Strip(s) == RStrip(LStrip(s))

\* ---------------------------------------------------- compile_typst_to_svg
\* File names are sequences of character codes, compared as Python compares
\* strings.  "output-" and ".svg":
OutputPrefix == << 111, 117, 116, 112, 117, 116, 45 >>
SvgSuffix == << 46, 115, 118, 103 >>

\* str(p) for p >= 0, as character codes ('0' is 48).
RECURSIVE Digits(_)
Digits(n) == IF n < 10 THEN << 48 + n >> ELSE Digits(n \div 10) \o << 48 + (n % 10) >>

\* The path typst writes page p to: the pattern output-{p}.svg.
SvgName(p) == OutputPrefix \o Digits(p) \o SvgSuffix

\* a < b for strings.
RECURSIVE LexLess(_, _)
LexLess(a, b) ==
    IF b = << >> THEN FALSE
    ELSE IF a = << >> THEN TRUE
    ELSE IF Head(a) # Head(b) THEN Head(a) < Head(b)
    ELSE LexLess(Tail(a), Tail(b))

\* fnmatch of output-*.svg
GlobMatches(name) ==
    /\ Len(name) >= Len(OutputPrefix) + Len(SvgSuffix)
    /\ SubSeq(name, 1, Len(OutputPrefix)) = OutputPrefix
    /\ SubSeq(name, Len(name) - Len(SvgSuffix) + 1, Len(name)) = SvgSuffix

\* tmpdir_path.glob("output-*.svg") on a directory's entries.
Glob(entries) == {entries[i] : i \in {j \in 1..Len(entries) : GlobMatches(entries[j].name)}}

\* sorted(...): ascending by path.
RECURSIVE Sorted(_)
Sorted(S) ==
    IF S = {} THEN << >>
    ELSE LET least == CHOOSE e \in S : \A o \in S : o = e \/ LexLess(e.name, o.name)
         IN << least >> \o Sorted(S \ {least})

\* "\n".join(parts)
RECURSIVE JoinNewline(_)
JoinNewline(parts) ==
    IF parts = << >> THEN << >>
    ELSE IF Len(parts) = 1 THEN parts[1]
    ELSE parts[1] \o << NewlineTok >> \o JoinNewline(Tail(parts))

\* The combined SVG of a directory's page files.
CombinedSvg(svg_files) == JoinNewline([i \in 1..Len(svg_files) |-> svg_files[i].text])

\* ------------------------------------------------------------ file system
\* The invocations of the tool that may run: one, or two side by side.
Procs == {1, 2}

SrcPath(p) == IF p = 1 THEN "post1.typ" ELSE "post2.typ"
OutPath(p) == IF p = 1 THEN "post1.html" ELSE "post2.html"
\* root_dir / "templates" / "blog-post.html"
TemplatePath == "templates/blog-post.html"
\* The names tempfile can draw.
TmpNames == {"tmpA", "tmpB"}
Paths == {SrcPath(p) : p \in Procs} \cup {OutPath(p) : p \in Procs}
             \cup {TemplatePath} \cup TmpNames

\* A path's entry: kind "none" (no such file), "text", "page" (a rendered
\* page), "dir" (data: its files, [name, text]); owner is the invocation that
\* created it (0: it was there before).
Absent == [kind |-> "none", data |-> << >>, owner |-> 0]
TextFile(text, p) == [kind |-> "text", data |-> text, owner |-> p]
PageFile(page, p) == [kind |-> "page", data |-> page, owner |-> p]
DirOf(entries, p) == [kind |-> "dir", data |-> entries, owner |-> p]

Exists(fs, path) == fs[path].kind # "none"

SameFile(a, b) ==
    /\ a.kind = b.kind
    /\ a.owner = b.owner
    /\ a.kind = "none" \/ a.data = b.data

\* Mutation of TempNames: one fixed name, whether or not a file has it.
TempNamesFixed(fs) == {"tmpA"}

\* tempfile's choice of a fresh name: one no file has.
TempNames(fs) == {n \in TmpNames : ~Exists(fs, n)}

\* ------------------------------------------------------------------ typst
\* What the external compiler does with one source file: its exit status,
\* the HTML document it writes (HTML export), the pages it writes (SVG
\* export: output-<first>.svg ... ).
PageText(n) == << "<svg>", ToString(n), "</svg>" >>

TypstPages(t) ==
    [i \in 1..t.npages |-> [name |-> SvgName(t.first + i - 1),
                            text |-> PageText(t.first + i - 1)]]

\* ------------------------------------------------------------------ state
VARIABLES
    live,          \* the invocations started
    argc,          \* len(sys.argv) of each
    typst,         \* the compiler's behaviour on each source file
    files,         \* the file system
    files0,        \* the file system before any invocation started
    pc,            \* where each invocation is
    metadata,      \* build_blog_post: metadata
    use_svg,       \* build_blog_post: use_svg
    tmp,           \* tmp_path / tmpdir of the compile step
    returncode,    \* result.returncode
    body_content,  \* build_blog_post: body_content
    html,          \* build_blog_post: html, the rendered page
    exit_code,     \* the process's exit status (-1: still running)
    msg,           \* the error message printed
    trace          \* the steps each invocation has completed, in order

vars == << live, argc, typst, files, files0, pc, metadata, use_svg, tmp,
           returncode, body_content, html, exit_code, msg, trace >>

\* Mutation of Render: the mode flag is not passed on.
RenderNoFlag(template, md, content, svg) ==
    [template |-> template,
     TITLE |-> IF << "title" >> \in DOMAIN md THEN md[<< "title" >>] ELSE << "Untitled" >>,
     SLUG |-> IF << "slug" >> \in DOMAIN md THEN md[<< "slug" >>] ELSE << >>,
     DATE_DISPLAY |-> << >>, DATE_ISO |-> << >>, DESCRIPTION |-> << >>, KEYWORDS |-> << >>,
     CONTENT |-> content,
     IS_SVG |-> FALSE]

\* template.render(TITLE=..., ..., IS_SVG=use_svg): the page is the template
\* with the context's values in its placeholders.
Render(template, md, content, svg) ==
    [template |-> template,
     TITLE |-> Get(md, << "title" >>, << "Untitled" >>),
     SLUG |-> Get(md, << "slug" >>, << >>),
     DATE_DISPLAY |-> Get(md, << "date_display" >>, << >>),
     DATE_ISO |-> Get(md, << "date_iso" >>, << >>),
     DESCRIPTION |-> Get(md, << "description" >>, << >>),
     KEYWORDS |-> Get(md, << "keywords" >>, << >>),
     CONTENT |-> content,
     IS_SVG |-> svg]

NoPage == Render(<< >>, EmptyDict, << >>, FALSE)
OldPage == Render(<< "old" >>, EmptyDict, << >>, FALSE)
TemplateText == << "template" >>

\* ------------------------------------------------------------------- main
\* sys.exit(1) after print(message), and an uncaught exception (traceback,
\* exit status 1), end the process the same way.
Exit1(p, message) ==
    /\ pc' = [pc EXCEPT ![p] = "done"]
    /\ exit_code' = [exit_code EXCEPT ![p] = 1]
    /\ msg' = [msg EXCEPT ![p] = message]

Step(p, to, what) ==
    /\ pc' = [pc EXCEPT ![p] = to]
    /\ trace' = [trace EXCEPT ![p] = Append(@, what)]
    /\ UNCHANGED << exit_code, msg >>

Main(p) ==
    /\ p \in live
    /\ pc[p] = "main"
    /\ IF argc[p] < 3
         THEN Exit1(p, "Usage: build_blog.py <typst_file> <output_file>") /\ UNCHANGED trace
       ELSE IF ~Exists(files, SrcPath(p))
         THEN Exit1(p, "Error: typst_file does not exist") /\ UNCHANGED trace
       ELSE IF ~Exists(files, TemplatePath)
         THEN Exit1(p, "Error: template_file does not exist") /\ UNCHANGED trace
       ELSE Step(p, "extract_metadata", "validate")
    /\ UNCHANGED << live, argc, typst, files, files0, metadata, use_svg, tmp,
                    returncode, body_content, html >>

\* ---------------------------------------------------------- build_blog_post
ExtractMetadata(p) ==
    /\ p \in live
    /\ pc[p] = "extract_metadata"
    /\ metadata' = [metadata EXCEPT ![p] = extract_metadata(files[SrcPath(p)].data)]
    /\ Step(p, "has_math", "metadata")
    /\ UNCHANGED << live, argc, typst, files, files0, use_svg, tmp,
                    returncode, body_content, html >>

HasMath(p) ==
    /\ p \in live
    /\ pc[p] = "has_math"
    /\ LET m == has_math(files[SrcPath(p)].data) IN
         /\ use_svg' = [use_svg EXCEPT ![p] = m]
         /\ IF m THEN Step(p, "svg_mkdtemp", "mode:svg")
                 ELSE Step(p, "html_mktemp", "mode:html")
    /\ UNCHANGED << live, argc, typst, files, files0, metadata, tmp,
                    returncode, body_content, html >>

\* ---------------------------------------------------- compile_typst_to_svg
\* What typst leaves in the output directory: its pages, beside the files
\* of other names already there.
WritePages(entries, pages) ==
    SelectSeq(entries, LAMBDA e : \A i \in 1..Len(pages) : pages[i].name # e.name)
        \o pages

\* Mutation of SvgResult: an empty page list is joined like any other.
SvgResultNoCheck(rc, entries) ==
    IF rc # 0
      THEN [ok |-> FALSE, content |-> << >>, error |-> "Exception: Typst SVG compilation failed"]
    ELSE [ok |-> TRUE, content |-> CombinedSvg(Sorted(Glob(entries))), error |-> ""]

\* Lines 66-82 on the compiler's exit status and the directory's entries:
\* the content returned, or the exception raised.
SvgResult(rc, entries) ==
    IF rc # 0
      THEN [ok |-> FALSE, content |-> << >>, error |-> "Exception: Typst SVG compilation failed"]
    ELSE LET svg_files == Sorted(Glob(entries)) IN
      IF svg_files = << >>
        THEN [ok |-> FALSE, content |-> << >>, error |-> "Exception: No SVG files were generated"]
      ELSE [ok |-> TRUE, content |-> CombinedSvg(svg_files), error |-> ""]

\* Mutation of RmTree: the directory is left behind.
KeepTree(fs, path) == fs

\* TemporaryDirectory.__exit__: the directory and all it holds are removed.
RmTree(fs, path) == [fs EXCEPT ![path] = Absent]

\* with tempfile.TemporaryDirectory() as tmpdir
SvgMkdtemp(p) ==
    /\ p \in live
    /\ pc[p] = "svg_mkdtemp"
    /\ \E n \in TempNames(files) :
         /\ files' = [files EXCEPT ![n] = DirOf(<< >>, p)]
         /\ tmp' = [tmp EXCEPT ![p] = n]
    /\ Step(p, "svg_run", "tmpdir")
    /\ UNCHANGED << live, argc, typst, files0, metadata, use_svg,
                    returncode, body_content, html >>

\* result = subprocess.run(["typst", "compile", "--format", "svg", ...])
SvgRun(p) ==
    /\ p \in live
    /\ pc[p] = "svg_run"
    /\ returncode' = [returncode EXCEPT ![p] = typst[p].returncode]
    /\ files' = IF typst[p].returncode = 0 /\ files[tmp[p]].kind = "dir"
                  THEN [files EXCEPT ![tmp[p]].data = WritePages(@, TypstPages(typst[p]))]
                  ELSE files
    /\ Step(p, "svg_collect", "compile:svg")
    /\ UNCHANGED << live, argc, typst, files0, metadata, use_svg, tmp,
                    body_content, html >>

\* Lines 66-82, and the end of the with block.
SvgCollect(p) ==
    /\ p \in live
    /\ pc[p] = "svg_collect"
    /\ LET entries == IF files[tmp[p]].kind = "dir" THEN files[tmp[p]].data ELSE << >>
           r == SvgResult(returncode[p], entries)
       IN IF r.ok
            THEN /\ body_content' = [body_content EXCEPT ![p] = r.content]
                 /\ Step(p, "render", "content")
            ELSE /\ Exit1(p, r.error)
                 /\ UNCHANGED << body_content, trace >>
    /\ files' = RmTree(files, tmp[p])
    /\ UNCHANGED << live, argc, typst, files0, metadata, use_svg, tmp,
                    returncode, html >>

\* --------------------------------------------------- compile_typst_to_html
\* Mutation of HtmlResult: the exit status is not looked at.
HtmlResultNoStatus(rc, read, html_content) ==
    LET body_match == BodySearch(html_content) IN
    [ok |-> TRUE,
     content |-> IF body_match.found THEN Strip(body_match.group) ELSE << >>,
     error |-> ""]

\* Lines 111-122 on the compiler's exit status and the temporary file (read
\* is FALSE when the file is not there to read): the content returned, or
\* the exception raised.
HtmlResult(rc, read, html_content) ==
    IF rc # 0
      THEN [ok |-> FALSE, content |-> << >>, error |-> "Exception: Typst compilation failed"]
    ELSE IF ~read
      THEN [ok |-> FALSE, content |-> << >>, error |-> "FileNotFoundError"]
    ELSE LET body_match == BodySearch(html_content) IN
      IF body_match.found
        THEN [ok |-> TRUE, content |-> Strip(body_match.group), error |-> ""]
      ELSE [ok |-> FALSE, content |-> << >>,
            error |-> "Exception: Could not find body content in generated HTML"]

\* Mutation of Unlink: the file is left behind.
KeepFile(fs, path) == fs

\* finally: if tmp_path.exists(): tmp_path.unlink()
Unlink(fs, path) == IF Exists(fs, path) THEN [fs EXCEPT ![path] = Absent] ELSE fs

\* with tempfile.NamedTemporaryFile(mode="w", suffix=".html", delete=False)
HtmlMktemp(p) ==
    /\ p \in live
    /\ pc[p] = "html_mktemp"
    /\ \E n \in TempNames(files) :
         /\ files' = [files EXCEPT ![n] = TextFile(<< >>, p)]
         /\ tmp' = [tmp EXCEPT ![p] = n]
    /\ Step(p, "html_run", "tmpfile")
    /\ UNCHANGED << live, argc, typst, files0, metadata, use_svg,
                    returncode, body_content, html >>

\* result = subprocess.run(["typst", "compile", "--features", "html", ...])
HtmlRun(p) ==
    /\ p \in live
    /\ pc[p] = "html_run"
    /\ returncode' = [returncode EXCEPT ![p] = typst[p].returncode]
    /\ files' = IF typst[p].returncode = 0
                  THEN [files EXCEPT ![tmp[p]] =
                           TextFile(typst[p].doc, IF Exists(files, tmp[p]) THEN @.owner ELSE p)]
                  ELSE files
    /\ Step(p, "html_extract", "compile:html")
    /\ UNCHANGED << live, argc, typst, files0, metadata, use_svg, tmp,
                    body_content, html >>

\* Lines 111-127.
HtmlExtract(p) ==
    /\ p \in live
    /\ pc[p] = "html_extract"
    /\ LET read == files[tmp[p]].kind = "text"
           r == HtmlResult(returncode[p], read, IF read THEN files[tmp[p]].data ELSE << >>)
       IN IF r.ok
            THEN /\ body_content' = [body_content EXCEPT ![p] = r.content]
                 /\ Step(p, "render", "content")
            ELSE /\ Exit1(p, r.error)
                 /\ UNCHANGED << body_content, trace >>
    /\ files' = Unlink(files, tmp[p])
    /\ UNCHANGED << live, argc, typst, files0, metadata, use_svg, tmp,
                    returncode, html >>

\* ------------------------------------------- build_blog_post, lines 149-166
RenderTemplate(p) ==
    /\ p \in live
    /\ pc[p] = "render"
    /\ IF Exists(files, TemplatePath)
         THEN /\ html' = [html EXCEPT ![p] =
                     Render(files[TemplatePath].data, metadata[p], body_content[p], use_svg[p])]
              /\ Step(p, "write", "render")
         ELSE /\ Exit1(p, "FileNotFoundError")
              /\ UNCHANGED << html, trace >>
    /\ UNCHANGED << live, argc, typst, files, files0, metadata, use_svg, tmp,
                    returncode, body_content >>

\* output_file.write_text(html); main returns and the process exits with 0.
WriteOutput(p) ==
    /\ p \in live
    /\ pc[p] = "write"
    /\ files' = [files EXCEPT ![OutPath(p)] = PageFile(html[p], p)]
    /\ pc' = [pc EXCEPT ![p] = "done"]
    /\ trace' = [trace EXCEPT ![p] = Append(@, "write")]
    /\ exit_code' = [exit_code EXCEPT ![p] = 0]
    /\ UNCHANGED << live, argc, typst, files0, metadata, use_svg, tmp,
                    returncode, body_content, html, msg >>

\* ------------------------------------------------------------------ inputs
DeclLet(k, v) ==
    << LetTok, SpaceTok, k, SpaceTok, EqTok, SpaceTok, QuoteTok, v, QuoteTok >>
DeclBare(k, v) == << k, SpaceTok, EqTok, SpaceTok, QuoteTok, v, QuoteTok >>
DeclOpen(k) == << LetTok, SpaceTok, k, SpaceTok, EqTok, SpaceTok, QuoteTok >>

\* The pieces source texts are put together from.
Fragments ==
    { DeclLet("title", "A"), DeclLet("title", "B"), DeclLet("keywords", "A"),
      DeclBare("title", "B"), DeclOpen("slug"),
      << DollarTok >>, << BackslashTok >>, << "x" >> }

RECURSIVE Concat(_)
Concat(parts) == IF parts = << >> THEN << >> ELSE Head(parts) \o Concat(Tail(parts))

SourceTexts ==
    { Concat(fs) : fs \in UNION { [1..n -> Fragments] : n \in 0..MaxFrags } }

FewSourceTexts ==
    { << "x" >>, << DollarTok, "x", DollarTok >>,
      DeclLet("title", "A") \o << NewlineTok, "x" >> }

DocToks == {BodyStart, BodyEnd, SpaceTok, "x"}
Docs == UNION { [1..n -> DocToks] : n \in 0..MaxDocLen }
DefaultDoc == << BodyStart, "x", BodyEnd >>

TypstFails == [returncode |-> 1, doc |-> << >>, first |-> 1, npages |-> 0]
TypstHtml(d) == [returncode |-> 0, doc |-> d, first |-> 1, npages |-> 1]
TypstSvg(f, n) == [returncode |-> 0, doc |-> DefaultDoc, first |-> f, npages |-> n]

\* Every exit status, every document, every page count from either first
\* page number; only what the mode in use reads of a behaviour varies.
TypstBehaviours ==
    {TypstFails} \cup {TypstHtml(d) : d \in Docs}
        \cup {TypstSvg(f, n) : f \in {0, 1}, n \in 0..MaxPages}

FewTypstBehaviours ==
    {TypstFails, TypstSvg(1, 2), TypstHtml(<< BodyStart, "A", BodyEnd >>),
     [returncode |-> 0, doc |-> << "x" >>, first |-> 1, npages |-> 0]}

NotStarted == [argc |-> 0, src |-> Absent, dest |-> Absent, typst |-> TypstFails]

InitWith(L, In1, In2, Templates) ==
    \E a \in In1, b \in In2, t \in Templates :
      /\ live = L
      /\ argc = << a.argc, b.argc >>
      /\ typst = << a.typst, b.typst >>
      /\ files = [path \in Paths |->
                    IF path = SrcPath(1) THEN a.src
                    ELSE IF path = SrcPath(2) THEN b.src
                    ELSE IF path = OutPath(1) THEN a.dest
                    ELSE IF path = OutPath(2) THEN b.dest
                    ELSE IF path = TemplatePath THEN t
                    ELSE Absent]
      /\ files0 = files
      /\ pc = [p \in Procs |-> IF p \in L THEN "main" ELSE "idle"]
      /\ metadata = [p \in Procs |-> EmptyDict]
      /\ use_svg = [p \in Procs |-> FALSE]
      /\ tmp = [p \in Procs |-> ""]
      /\ returncode = [p \in Procs |-> 0]
      /\ body_content = [p \in Procs |-> << >>]
      /\ html = [p \in Procs |-> NoPage]
      /\ exit_code = [p \in Procs |-> -1]
      /\ msg = [p \in Procs |-> ""]
      /\ trace = [p \in Procs |-> << >>]

Templates == {Absent, TextFile(TemplateText, 0)}
Dests == {Absent, PageFile(OldPage, 0)}

\* One invocation: any arguments, files and compiler behaviour.
Init ==
    InitWith({1},
             [argc : {2, 3},
              src : {Absent} \cup {TextFile(s, 0) : s \in FewSourceTexts},
              dest : Dests,
              typst : TypstBehaviours],
             {NotStarted}, Templates)

\* One invocation on every source text.
InitSource ==
    InitWith({1},
             [argc : {2, 3},
              src : {TextFile(s, 0) : s \in SourceTexts},
              dest : {Absent},
              typst : {TypstFails, TypstSvg(1, 2)}],
             {NotStarted}, {TextFile(TemplateText, 0)})

\* Two invocations side by side, on different source and destination files.
InitPair ==
    LET In == [argc : {3},
               src : {TextFile(<< "x" >>, 0), TextFile(<< DollarTok, "x", DollarTok >>, 0)},
               dest : {Absent},
               typst : FewTypstBehaviours]
    IN InitWith({1, 2}, In, In, {TextFile(TemplateText, 0)})

Next ==
    \E p \in Procs :
        \/ Main(p)
        \/ ExtractMetadata(p)
        \/ HasMath(p)
        \/ SvgMkdtemp(p)
        \/ SvgRun(p)
        \/ SvgCollect(p)
        \/ HtmlMktemp(p)
        \/ HtmlRun(p)
        \/ HtmlExtract(p)
        \/ RenderTemplate(p)
        \/ WriteOutput(p)

Spec == Init /\ [][Next]_vars
SpecSource == InitSource /\ [][Next]_vars
SpecPair == InitPair /\ [][Next]_vars

\* ================================================================== claims
Has(tr, x) == \E i \in 1..Len(tr) : tr[i] = x
Count(tr, x) == Cardinality({i \in 1..Len(tr) : tr[i] = x})
Before(tr, x, y) == \E i, j \in 1..Len(tr) : i < j /\ tr[i] = x /\ tr[j] = y

SourceText(p) == files0[SrcPath(p)].data
Compiled(p) == Has(trace[p], "compile:svg") \/ Has(trace[p], "compile:html")
AfterCompile(p) == pc[p] \in {"render", "write", "done"}

\* A body-start marker with a body-end marker somewhere after it.
HasRegion(doc) ==
    \E i, j \in 1..Len(doc) : i < j /\ doc[i] = BodyStart /\ doc[j] = BodyEnd

\* The ways a build fails.
MissingArgs(p) == argc[p] < 3
MissingSource(p) == ~Exists(files0, SrcPath(p))
MissingTemplate(p) == ~Exists(files0, TemplatePath)
CompilerFailed(p) == Compiled(p) /\ typst[p].returncode # 0
NoBodyRegion(p) ==
    Has(trace[p], "compile:html") /\ typst[p].returncode = 0 /\ ~HasRegion(typst[p].doc)
ZeroPages(p) ==
    Has(trace[p], "compile:svg") /\ typst[p].returncode = 0 /\ typst[p].npages = 0
Fails(p) ==
    \/ MissingArgs(p)
    \/ MissingSource(p)
    \/ MissingTemplate(p)
    \/ CompilerFailed(p)
    \/ NoBodyRegion(p)
    \/ ZeroPages(p)

\* C1: no partial output on failure.  A build that fails (missing arguments,
\* source or template, compiler exit status # 0, no body region, zero pages)
\* never writes the destination, which keeps the content it had; and once the
\* destination is written, validation, compilation, content extraction and
\* rendering have all completed, in that order, and the build did not fail.
C1_NoPartialOutput ==
    \A p \in live :
      /\ Fails(p) =>
           /\ ~Has(trace[p], "write")
           /\ SameFile(files[OutPath(p)], files0[OutPath(p)])
      /\ Has(trace[p], "write") =>
           /\ ~Fails(p)
           /\ Before(trace[p], "validate", "write")
           /\ Compiled(p)
           /\ Before(trace[p], "content", "render")
           /\ Before(trace[p], "render", "write")
           /\ \A i \in 1..Len(trace[p]) :
                trace[p][i] \in {"compile:svg", "compile:html"} =>
                   i < Len(trace[p]) /\ Has(SubSeq(trace[p], i + 1, Len(trace[p])), "content")

\* A build ended by the compiler's exit status, over a destination that was there.
C1_Witness ==
    /\ pc[1] = "done"
    /\ CompilerFailed(1)
    /\ Exists(files0, OutPath(1))
    /\ exit_code[1] = 1

\* C2: every invocation ends with exit status 1 and a message when it fails
\* in one of the listed ways and with exit status 0 otherwise, having written
\* the page; no other status is reachable, and once the compiler has returned
\* the invocation is in the steps that lead to one of the two.
C2_ExitStatus ==
    \A p \in live :
      /\ pc[p] = "done" =>
           /\ exit_code[p] \in {0, 1}
           /\ exit_code[p] = 1 <=> Fails(p)
           /\ exit_code[p] = 1 => msg[p] # ""
           /\ exit_code[p] = 0 => Has(trace[p], "write") /\ msg[p] = ""
      /\ pc[p] # "done" => exit_code[p] = -1
      /\ Compiled(p) => pc[p] \in {"svg_collect", "html_extract", "render", "write", "done"}

\* An invocation ended because the compiler wrote no page.
C2_Witness ==
    /\ pc[1] = "done"
    /\ ZeroPages(1)
    /\ exit_code[1] = 1
    /\ msg[1] = "Exception: No SVG files were generated"

\* C3: when the compilation step has finished, however it ended, the temporary
\* file or directory it created is gone.
C3_TempCleanup ==
    \A p \in live :
      (Compiled(p) /\ AfterCompile(p)) =>
         /\ ~(Exists(files, tmp[p]) /\ files[tmp[p]].owner = p)
         /\ \A n \in TmpNames : ~(Exists(files, n) /\ files[n].owner = p)

\* A compilation step that raised after the compiler had written its document.
C3_Witness ==
    /\ pc[1] = "done"
    /\ NoBodyRegion(1)
    /\ typst[1].doc # << >>
    /\ tmp[1] \in TmpNames

\* C4 as stated: every invocation, whatever its outcome, writes the destination
\* exactly once.
C4_ExactlyOneWrite ==
    \A p \in live : pc[p] = "done" => Count(trace[p], "write") = 1

\* C4 amended: an invocation writes the destination at most once: exactly
\* once, with the rendered page, when it succeeds, and not at all when it
\* fails; when every invocation has ended, no other file has changed.
C4_AtMostOneWrite ==
    /\ \A p \in live :
         /\ Count(trace[p], "write") <= 1
         /\ (pc[p] = "done" /\ exit_code[p] = 0) =>
               /\ Count(trace[p], "write") = 1
               /\ SameFile(files[OutPath(p)], PageFile(html[p], p))
         /\ (pc[p] = "done" /\ exit_code[p] = 1) =>
               /\ Count(trace[p], "write") = 0
               /\ SameFile(files[OutPath(p)], files0[OutPath(p)])
    /\ (\A p \in live : pc[p] = "done") =>
          \A path \in Paths \ {OutPath(p) : p \in live} : SameFile(files[path], files0[path])

\* A build in SVG mode that has written its page.
C4_Witness ==
    /\ pc[1] = "done"
    /\ exit_code[1] = 0
    /\ Has(trace[1], "compile:svg")
    /\ files[OutPath(1)].kind = "page"

\* C5: the mode is decided once, before the compiler runs, and stays; the
\* compiler runs at most once, in SVG mode exactly when math was detected, and
\* the IS_SVG flag of the rendered page is the mode the compiler ran in.
C5_ModeFixed ==
    \A p \in live :
      /\ Count(trace[p], "mode:svg") + Count(trace[p], "mode:html") <= 1
      /\ Count(trace[p], "compile:svg") + Count(trace[p], "compile:html") <= 1
      /\ Has(trace[p], "mode:svg") => use_svg[p]
      /\ Has(trace[p], "mode:html") => ~use_svg[p]
      /\ Has(trace[p], "compile:svg") =>
            Before(trace[p], "mode:svg", "compile:svg") /\ has_math(SourceText(p))
      /\ Has(trace[p], "compile:html") =>
            Before(trace[p], "mode:html", "compile:html") /\ ~has_math(SourceText(p))
      /\ Has(trace[p], "render") => html[p].IS_SVG = Has(trace[p], "compile:svg")
      /\ files[OutPath(p)].owner = p =>
            files[OutPath(p)].data.IS_SVG = Has(trace[p], "compile:svg")

\* A page rendered from an SVG compilation.
C5_Witness ==
    /\ Has(trace[1], "render")
    /\ Has(trace[1], "compile:svg")
    /\ html[1].IS_SVG

\* The pages first, first + 1, ... in that order, joined.
PagesInNumericOrder(t) == JoinNewline([i \in 1..t.npages |-> PageText(t.first + i - 1)])

\* C6: in SVG mode the content is the page files' contents in numeric page
\* order, each page once, for any number of pages; with no page file the step
\* fails.
C6_NumericPageOrder ==
    \A p \in live :
      (Has(trace[p], "compile:svg") /\ AfterCompile(p) /\ typst[p].returncode = 0) =>
         IF typst[p].npages >= 1
           THEN Has(trace[p], "content") /\ body_content[p] = PagesInNumericOrder(typst[p])
           ELSE pc[p] = "done" /\ exit_code[p] = 1 /\ ~Has(trace[p], "content")

\* The inner text of the first region: from the first body-start marker to
\* the nearest body-end marker after it.
FirstRegion(doc) ==
    LET i == CHOOSE a \in 1..Len(doc) :
                 doc[a] = BodyStart /\ \A b \in 1..(a - 1) : doc[b] # BodyStart
        j == CHOOSE a \in (i + 1)..Len(doc) :
                 doc[a] = BodyEnd /\ \A b \in (i + 1)..(a - 1) : doc[b] # BodyEnd
    IN Slice(doc, i + 1, j - 1)

\* r is s without its leading and trailing whitespace.
IsTrimOf(r, s) ==
    \E a, b \in 0..Len(s) :
      /\ a + b <= Len(s)
      /\ r = Slice(s, a + 1, Len(s) - b)
      /\ \A k \in 1..a : IsSpace(s[k])
      /\ \A k \in (Len(s) - b + 1)..Len(s) : IsSpace(s[k])
      /\ r # << >> => ~IsSpace(r[1]) /\ ~IsSpace(r[Len(r)])

\* C7: in HTML mode with exit status 0, a document with a body region yields
\* the trimmed inner text of its first region; a document without one ends
\* the build with a fatal error and no content.
C7_BodyExtraction ==
    \A p \in live :
      (Has(trace[p], "compile:html") /\ AfterCompile(p) /\ typst[p].returncode = 0) =>
         IF HasRegion(typst[p].doc)
           THEN /\ Has(trace[p], "content")
                /\ IsTrimOf(body_content[p], FirstRegion(typst[p].doc))
           ELSE /\ pc[p] = "done"
                /\ exit_code[p] = 1
                /\ msg[p] = "Exception: Could not find body content in generated HTML"
                /\ ~Has(trace[p], "content")
                /\ body_content[p] = << >>

\* Content taken from a region that a second body-end marker follows, and
\* that whitespace was trimmed from.
C7_Witness ==
    /\ Has(trace[1], "compile:html")
    /\ Has(trace[1], "content")
    /\ Count(typst[1].doc, BodyEnd) = 2
    /\ Len(body_content[1]) < Len(FirstRegion(typst[1].doc))

\* ---------------------------------------------------------------- metadata
RecognizedKeys == {"title", "slug", "date_display", "date_iso", "description", "keywords"}

DefaultOf(k) == IF k = "title" THEN << "Untitled" >> ELSE << >>

\* The value the template is handed for key k.
Handed(page, k) ==
    CASE k = "title" -> page.TITLE
      [] k = "slug" -> page.SLUG
      [] k = "date_display" -> page.DATE_DISPLAY
      [] k = "date_iso" -> page.DATE_ISO
      [] k = "description" -> page.DESCRIPTION
      [] k = "keywords" -> page.KEYWORDS

AllSpace(text, a, b) == a <= b /\ \A i \in a..b : IsSpace(text[i])

\* The declarations  k = "value"  in the text, k a whole word: where each
\* starts and ends, and its literal.
BareDecls(text, k) ==
    LET starts == {i \in 1..Len(text) : text[i] = k /\ (i = 1 \/ ~IsWord(text[i - 1]))}
        quotes == {i \in 1..Len(text) : text[i] = QuoteTok}
    IN { [start |-> t[1], end |-> t[3], value |-> Slice(text, t[2] + 1, t[3] - 1)] :
           t \in { u \in starts \X quotes \X quotes :
                     /\ u[1] < u[2] /\ u[2] < u[3]
                     /\ \A m \in (u[2] + 1)..(u[3] - 1) : text[m] # QuoteTok
                     /\ \E e \in (u[1] + 2)..(u[2] - 2) :
                           /\ text[e] = EqTok
                           /\ AllSpace(text, u[1] + 1, e - 1)
                           /\ AllSpace(text, e + 1, u[2] - 1) } }

\* The declarations  #let k = "value"  in the text, for the words k of Keys.
LetDecls(text, Keys) ==
    LET lets == {i \in 1..Len(text) : text[i] = LetTok}
        bare == UNION { {[key |-> w, decl |-> b] : b \in BareDecls(text, w)} : w \in Keys }
    IN { [start |-> t[1], end |-> t[2].decl.end, key |-> t[2].key,
          value |-> t[2].decl.value] :
           t \in { u \in lets \X bare :
                     /\ u[1] < u[2].decl.start - 1
                     /\ AllSpace(text, u[1] + 1, u[2].decl.start - 1) } }

\* The words of the text.
WordsOf(text) == {text[i] : i \in {j \in 1..Len(text) : IsWord(text[j])}}

\* The element of the non-empty set D that starts last.
Last(D) == CHOOSE d \in D : \A o \in D : o.start <= d.start

\* C8 as stated: each recognized key is handed the literal of the last
\* declaration  k = "value"  anywhere in the text, or its default when there
\* is none.
C8_LastDeclaration ==
    \A p \in live :
      Has(trace[p], "render") =>
        \A k \in RecognizedKeys :
          LET D == BareDecls(SourceText(p), k) IN
          Handed(html[p], k) = IF D = {} THEN DefaultOf(k) ELSE Last(D).value

\* The declarations a left to right scan takes: those that do not start
\* inside a declaration taken before them.
IsScan(S, All) ==
    S = { d \in All : ~\E e \in S : e.start < d.start /\ d.start <= e.end }

\* C8 amended: each recognized key is handed the literal of the last
\* declaration  #let k = "value"  that a left to right scan for such
\* declarations, of any word, takes (one that starts inside the literal of a
\* declaration taken before it is passed over), or its default when there is
\* none; a text with no declaration gives an empty mapping and no error.
C8_LastLetDeclaration ==
    \A p \in live :
      LET All == LetDecls(SourceText(p), WordsOf(SourceText(p))) IN
      /\ Has(trace[p], "metadata") =>
           /\ All = {} => DOMAIN metadata[p] = {}
           /\ msg[p] = "" \/ Compiled(p)
      /\ Has(trace[p], "render") =>
           \E S \in SUBSET All :
             /\ IsScan(S, All)
             /\ \A k \in RecognizedKeys :
                  LET D == {d \in S : d.key = k} IN
                  Handed(html[p], k) = IF D = {} THEN DefaultOf(k) ELSE Last(D).value

\* A page rendered from a text that declares the title twice and the keywords.
C8_Witness ==
    /\ Has(trace[1], "render")
    /\ SourceText(1) =
          DeclLet("title", "A") \o DeclLet("keywords", "A") \o DeclLet("title", "B")
    /\ html[1].TITLE = << "B" >>
    /\ html[1].KEYWORDS = << "A" >>
    /\ html[1].SLUG = << >>

\* ------------------------------------------------------------------- math
Escaped(text, k) == k > 1 /\ text[k - 1] = BackslashTok

\* C9 as stated: has_math is true exactly when the text has a substring that
\* starts and ends with $ and has no unescaped $ inside.
C9_DelimitedSubstring ==
    \A p \in live :
      (Has(trace[p], "mode:svg") \/ Has(trace[p], "mode:html")) =>
        LET text == SourceText(p) IN
        use_svg[p] <=>
          \E i, j \in 1..Len(text) :
            /\ i < j
            /\ text[i] = DollarTok
            /\ text[j] = DollarTok
            /\ \A k \in (i + 1)..(j - 1) : text[k] = DollarTok => Escaped(text, k)

\* C9 amended: has_math is true exactly when the text has a substring that
\* starts and ends with $, has at least one character between the two, and
\* has no unescaped $ inside; a text with $x+y$ has math, one without $ none.
C9_NonEmptyDelimitedSubstring ==
    \A p \in live :
      (Has(trace[p], "mode:svg") \/ Has(trace[p], "mode:html")) =>
        LET text == SourceText(p) IN
        /\ use_svg[p] <=>
             \E i, j \in 1..Len(text) :
               /\ i + 1 < j
               /\ text[i] = DollarTok
               /\ text[j] = DollarTok
               /\ \A k \in (i + 1)..(j - 1) : text[k] = DollarTok => Escaped(text, k)
        /\ (\E i \in 1..(Len(text) - 2) :
               text[i] = DollarTok /\ IsWord(text[i + 1]) /\ text[i + 2] = DollarTok)
             => use_svg[p]
        /\ (\A i \in 1..Len(text) : text[i] # DollarTok) => ~use_svg[p]

\* Math detected between a delimiter and an escaped delimiter.
C9_Witness ==
    /\ Has(trace[1], "mode:svg")
    /\ use_svg[1]
    /\ SourceText(1) = << DollarTok, BackslashTok, DollarTok >>

\* ------------------------------------------------------------ concurrency
InCompile(p) == pc[p] \in {"svg_run", "svg_collect", "html_run", "html_extract"}

\* What invocation p does when nothing else runs: its exit status and the
\* destination file it leaves.
Alone(p) ==
    IF MissingArgs(p) \/ MissingSource(p) \/ MissingTemplate(p)
      THEN [exit_code |-> 1, dest |-> files0[OutPath(p)]]
    ELSE LET text == SourceText(p)
             t == typst[p]
             svg == has_math(text)
             r == IF svg
                    THEN SvgResult(t.returncode,
                                   IF t.returncode = 0 THEN TypstPages(t) ELSE << >>)
                    ELSE HtmlResult(t.returncode, TRUE,
                                    IF t.returncode = 0 THEN t.doc ELSE << >>)
         IN IF r.ok
              THEN [exit_code |-> 0,
                    dest |-> PageFile(Render(files0[TemplatePath].data,
                                             extract_metadata(text), r.content, svg), p)]
              ELSE [exit_code |-> 1, dest |-> files0[OutPath(p)]]

\* C10: two invocations on different source and destination files, under
\* every interleaving: each holds a temporary path of its own while it
\* compiles, which the other neither overwrites nor deletes, and each ends
\* with the exit status and the destination it produces when run alone.
C10_Independence ==
    \A p \in live :
      /\ InCompile(p) =>
           /\ Exists(files, tmp[p])
           /\ files[tmp[p]].owner = p
           /\ \A q \in live \ {p} : InCompile(q) => tmp[q] # tmp[p]
      /\ pc[p] = "done" =>
           /\ exit_code[p] = Alone(p).exit_code
           /\ SameFile(files[OutPath(p)], Alone(p).dest)
      /\ pc[p] # "done" => SameFile(files[OutPath(p)], files0[OutPath(p)])

\* Both invocations hold a temporary file the compiler has written.
C10_Witness ==
    /\ live = {1, 2}
    /\ pc[1] = "html_extract"
    /\ pc[2] = "html_extract"
    /\ returncode[1] = 0
    /\ returncode[2] = 0

====
